---- MODULE Spec2Model ----
(***************************************************************************)
(* Session / media-state reconciliation of the video-calling client:       *)
(*   - useMediasoup (src/hooks/useWebRTC.ts, lines 169-944): the SFU hook  *)
(*   - useLiveKit   (src/hooks/useLiveKit.ts): the managed-SDK hook        *)
(* JavaScript is single threaded: one action is one macrotask, that is one *)
(* event handler or one continuation of an async function up to its next   *)
(* await on something that crosses the system boundary.  React state       *)
(* updates (setX) are modelled as committed at the end of the task.        *)
(***************************************************************************)
EXTENDS Integers, Sequences, FiniteSets, TLC

\* ------------------------------------------------------------------ bounds
NumPeers == 2        \* remote peer ids 1..NumPeers
NumProducers == 2    \* remote producers 1..NumProducers
MaxRuns == 2         \* runs of effect 2 (the mediasoup effect) of one hook instance
MaxToggles == 2      \* calls of toggleMute / toggleVideo
MaxSwitches == 2     \* calls of changeAudioInput / changeVideoInput
MaxSpeakers == 2     \* length of a ranked active-speaker report

Peers == 1..NumPeers
Producers == 1..NumProducers
Runs == 1..MaxRuns
Kinds == {"audio", "video"}

\* The server's ProducerInfo of producer q: producers 1,2 belong to peer 1,
\* producers 3,4 to peer 2, ...; odd ones are audio and even ones video.
ProducerPeer(q) == (((q - 1) \div 2) % NumPeers) + 1
ProducerKind(q) == IF q % 2 = 1 THEN "audio" ELSE "video"
PeerName(p) == p

\* The consumer the server creates when run r consumes producer q, and its
\* track: the id of the "consume" response.
ConsumerId(r, q) == (r - 1) * NumProducers + q
ConsumerIds == 1..(MaxRuns * NumProducers)
ConsumerProducer(c) == ((c - 1) % NumProducers) + 1
ConsumerRun(c) == ((c - 1) \div NumProducers) + 1
ConsumerPeer(c) == ProducerPeer(ConsumerProducer(c))
ConsumerKind(c) == ProducerKind(ConsumerProducer(c))

VARIABLES
  \* --- useMediasoup: React state
  participants,        \* RemoteParticipant[]
  localParticipant,    \* LocalParticipant | null
  isConnecting, error, isMuted, isVideoOff,
  \* --- useMediasoup: refs
  socketState,         \* socket: "none" (null) | "connecting" | "connected" | "closed"
  deviceRef, sendTransportRef, recvTransportRef,  \* 0 (null) or the run that created it
  producersRef,        \* kind -> index into producerObjs, 0 when absent
  consumersRef,        \* set of registered consumer ids
  localStreamRef,      \* 0 (null) or the run whose getUserMedia made the stream
  isConnectedRef,
  pendingProducersRef, \* sequence of producers
  \* --- props of the hook
  initialMuted, initialVideoOff,
  \* --- control state of the asynchronous functions
  runs,                \* run -> [pc, mounted, muted0, videoOff0, todo]
  nRuns,
  consumes,            \* consumer id -> stage of its consumeProducer call
  handlersOn,          \* the socket handlers cleanup removes are registered
  pauseHandlersOn,     \* producerPaused / producerResumed handlers are registered
  toggles,             \* sequence of toggleMute / toggleVideo calls
  switches,            \* sequence of changeAudioInput / changeVideoInput calls
  \* --- the media engine
  producerObjs,        \* sequence of [kind, track, paused, closed]
  closedConsumers,     \* consumers on which close() was called
  closedTransports,    \* runs whose transports were closed
  disabledTracks, stoppedTracks,
  acquiredTracks,      \* history: the local tracks getUserMedia handed out
  \* --- history (not read by the program)
  peerHist,            \* peer -> last membership report: "unknown", "joined", "left",
                       \* or "dup" (a newPeer for an id that was in the roster)
  announced,           \* producers the server sent a newProducer event for
  queuedEver,          \* producers that went through pendingProducersRef
  pausedProducers,     \* producers that are paused at the server
  joinReqs,            \* joinRoom requests emitted on the socket
  leaveCalled,         \* disconnect() was called
  cmdLog,              \* engine commands issued by the toggles
  onDisconnectedCalls,
  tornDownActs,        \* what continuations of torn-down runs did
  \* --- useLiveKit
  lkRoom, lkParticipants, lkLocalParticipant, lkIsConnecting, lkError,
  lkIsMuted, lkIsVideoOff, lkActiveSpeaker,
  lkIsConnectingRef, lkHasConnectedRef,
  lkPc, lkMounted, lkHandlersOn,
  lkSdk,               \* the SDK's Room: [state, remote, micEnabled, camEnabled]
  lkLastReport, lkReportTick,   \* history: the last ActiveSpeakersChanged report
  lkOnDisconnectedCalls,
  lkToggles,           \* sequence of toggleMute / toggleVideo calls of useLiveKit
  lkLeaveEarly         \* history: disconnect() was called before room.connect resolved

rosterVars == <<participants, consumersRef, pendingProducersRef, consumes,
                closedConsumers, peerHist, announced, queuedEver, pausedProducers>>
sessionVars == <<socketState, deviceRef, sendTransportRef, recvTransportRef,
                 isConnectedRef, isConnecting, error, runs, nRuns, handlersOn,
                 pauseHandlersOn, closedTransports, initialMuted, initialVideoOff,
                 joinReqs, leaveCalled, onDisconnectedCalls, tornDownActs>>
localVars == <<localParticipant, isMuted, isVideoOff, producersRef, localStreamRef,
               producerObjs, disabledTracks, stoppedTracks, acquiredTracks, toggles,
               switches, cmdLog>>
msVars == <<rosterVars, sessionVars, localVars>>
lkVars == <<lkRoom, lkParticipants, lkLocalParticipant, lkIsConnecting, lkError,
            lkIsMuted, lkIsVideoOff, lkActiveSpeaker, lkIsConnectingRef,
            lkHasConnectedRef, lkPc, lkMounted, lkHandlersOn, lkSdk,
            lkLastReport, lkReportTick, lkOnDisconnectedCalls, lkToggles,
            lkLeaveEarly>>
lkCallVars == <<lkToggles, lkLeaveEarly>>
vars == <<msVars, lkVars>>

\* ----------------------------------------------------------------- helpers
Range(s) == {s[i] : i \in DOMAIN s}
Ids(list) == {list[i].id : i \in DOMAIN list}
InRoster(p) == p \in Ids(participants)
Entry(list, p) == list[CHOOSE i \in DOMAIN list : list[i].id = p]

\* A local track: the capture of run n (src "cap") or of switch call n (src "sw").
Track(src, n, kind) == [src |-> src, n |-> n, kind |-> kind]
NoTrack == [src |-> "none", n |-> 0, kind |-> "none"]

RECURSIVE SeqOfSet(_)
\* Some enumeration of a finite set of numbers, in increasing order.
SeqOfSet(S) ==
  IF S = {} THEN <<>>
  ELSE LET m == CHOOSE x \in S : \A y \in S : x <= y
       IN <<m>> \o SeqOfSet(S \ {m})

\* All duplicate-free sequences over S.
Perms(S) == {s \in [1..Cardinality(S) -> S] : \A i, j \in DOMAIN s : s[i] = s[j] => i = j}
Rosters(S) == UNION {Perms(T) : T \in SUBSET S}

\* ------------------------------------------------------------ initial state
NoLocal == [id |-> "null", isMicrophoneEnabled |-> FALSE, isCameraEnabled |-> FALSE,
            videoTrack |-> NoTrack, audioTrack |-> NoTrack,
            isMuted |-> FALSE, isVideoOff |-> FALSE]
IdleRun == [pc |-> "idle", mounted |-> FALSE, muted0 |-> FALSE, videoOff0 |-> FALSE,
            todo |-> <<>>, existing |-> <<>>]
LkSdk0 == [state |-> "new", remote |-> {}, micEnabled |-> FALSE, camEnabled |-> FALSE]

InitMediasoup ==
  /\ participants = <<>>
  /\ localParticipant = NoLocal
  /\ isConnecting = FALSE
  /\ error = "null"
  /\ initialMuted \in BOOLEAN
  /\ initialVideoOff \in BOOLEAN
  /\ isMuted = initialMuted
  /\ isVideoOff = initialVideoOff
  /\ socketState = "none"
  /\ deviceRef = 0 /\ sendTransportRef = 0 /\ recvTransportRef = 0
  /\ producersRef = [k \in Kinds |-> 0]
  /\ consumersRef = {}
  /\ localStreamRef = 0
  /\ isConnectedRef = FALSE
  /\ pendingProducersRef = <<>>
  /\ runs = [r \in Runs |-> IdleRun]
  /\ nRuns = 0
  /\ consumes = [c \in ConsumerIds |-> "none"]
  /\ handlersOn = FALSE /\ pauseHandlersOn = FALSE
  /\ toggles = <<>> /\ switches = <<>>
  /\ producerObjs = <<>>
  /\ closedConsumers = {} /\ closedTransports = {}
  /\ disabledTracks = {} /\ stoppedTracks = {} /\ acquiredTracks = {}
  /\ peerHist = [p \in Peers |-> "unknown"]
  /\ announced = {} /\ queuedEver = {} /\ pausedProducers = {}
  /\ joinReqs = 0 /\ leaveCalled = FALSE /\ onDisconnectedCalls = 0
  /\ cmdLog = <<>>
  /\ tornDownActs = {}

InitLiveKit ==
  /\ lkRoom = FALSE
  /\ lkParticipants = <<>>
  /\ lkLocalParticipant = FALSE
  /\ lkIsConnecting = FALSE
  /\ lkError = "null"
  /\ lkIsMuted = FALSE
  /\ lkIsVideoOff = FALSE
  /\ lkActiveSpeaker = 0
  /\ lkIsConnectingRef = FALSE
  /\ lkHasConnectedRef = FALSE
  /\ lkPc = "idle"
  /\ lkMounted = FALSE
  /\ lkHandlersOn = FALSE
  /\ lkSdk = LkSdk0
  /\ lkLastReport = <<>>
  /\ lkReportTick = FALSE
  /\ lkOnDisconnectedCalls = 0
  /\ lkToggles = <<>>
  /\ lkLeaveEarly = FALSE

Init == InitMediasoup /\ InitLiveKit

\* --------------------------------------------- roster updaters (pure functions)
NewParticipant(p) ==
  [id |-> p, name |-> PeerName(p), videoTrack |-> 0, audioTrack |-> 0,
   isMuted |-> TRUE, isVideoOff |-> TRUE]

\* setParticipants(peers.map(...)) of connect: the list is replaced.
InitialRoster(peers) == [i \in DOMAIN peers |-> NewParticipant(peers[i])]

\* newPeer without the lookup: the entry is appended whatever the list holds.
NewPeerAppend(prev, p) == Append(prev, NewParticipant(p))

\* newPeer that resets the entry of an id it finds.
NewPeerReset(prev, p) ==
  IF p \in Ids(prev)
  THEN [i \in DOMAIN prev |-> IF prev[i].id = p THEN NewParticipant(p) ELSE prev[i]]
  ELSE Append(prev, NewParticipant(p))

\* The updater of the newPeer handler.
NewPeerUpdater(prev, p) ==
  IF p \in Ids(prev) THEN prev ELSE Append(prev, NewParticipant(p))

\* The updater of the peerLeft handler.
PeerLeftUpdater(prev, p) == SelectSeq(prev, LAMBDA e : e.id # p)

\* One entry with the track of a kind and its flag set.
WithTrack(e, kind, track, off) ==
  IF kind = "video"
  THEN [e EXCEPT !.videoTrack = track, !.isVideoOff = off]
  ELSE [e EXCEPT !.audioTrack = track, !.isMuted = off]

\* One entry with the flag of a kind set and the track of that kind dropped.
WithFlagDropTrack(e, kind, off) ==
  IF kind = "video"
  THEN [e EXCEPT !.videoTrack = 0, !.isVideoOff = off]
  ELSE [e EXCEPT !.audioTrack = 0, !.isMuted = off]

\* One entry with the flag of a kind set (lines 690-695, 720-725).
WithFlag(e, kind, off) ==
  IF kind = "video" THEN [e EXCEPT !.isVideoOff = off] ELSE [e EXCEPT !.isMuted = off]

\* An updater at the end of consumeProducer that rebuilds the entry around the
\* new track.
ConsumedUpdaterFresh(prev, p, kind, track) ==
  IF p \in Ids(prev)
  THEN [i \in DOMAIN prev |->
          IF prev[i].id = p
          THEN WithTrack(NewParticipant(p), kind, track, FALSE) ELSE prev[i]]
  ELSE Append(prev, WithTrack(NewParticipant(p), kind, track, FALSE))

\* The updater at the end of consumeProducer.
ConsumedUpdater(prev, p, kind, track) ==
  IF p \in Ids(prev)
  THEN [i \in DOMAIN prev |->
          IF prev[i].id = p THEN WithTrack(prev[i], kind, track, FALSE) ELSE prev[i]]
  ELSE Append(prev,
         [id |-> p, name |-> PeerName(p),
          videoTrack |-> IF kind = "video" THEN track ELSE 0,
          audioTrack |-> IF kind = "audio" THEN track ELSE 0,
          isMuted |-> kind # "audio", isVideoOff |-> kind # "video"])

\* An updater of consumerClosed that drops the participant with its track.
ConsumerClosedRemoves(prev, p, kind) == SelectSeq(prev, LAMBDA e : e.id # p)

\* The updater of the consumerClosed handler.
ConsumerClosedUpdater(prev, p, kind) ==
  [i \in DOMAIN prev |->
     IF prev[i].id = p THEN WithTrack(prev[i], kind, 0, TRUE) ELSE prev[i]]

\* The kind the producerPaused / producerResumed handlers find by scanning
\* consumersRef for a consumer of that peer and producer; "none" when there is none.
LookupKind(q, p) ==
  IF \E c \in consumersRef : ConsumerPeer(c) = p /\ ConsumerProducer(c) = q
  THEN ProducerKind(q) ELSE "none"

\* An updater of producerPaused / producerResumed that takes the kind from the
\* event's producer when no consumer of it is registered.
PauseUpdaterGuessKind(prev, q, p, off) ==
  [i \in DOMAIN prev |->
     IF prev[i].id = p THEN WithFlag(prev[i], ProducerKind(q), off) ELSE prev[i]]

\* The updater of the producerClosed handler (lines 734-742): every entry is
\* returned as it is.
ProducerClosedUpdater(prev, p) == [i \in DOMAIN prev |-> prev[i]]

\* The updater of the producerPaused (off = TRUE) / producerResumed handler.
PauseUpdater(prev, q, p, off) ==
  [i \in DOMAIN prev |->
     IF prev[i].id = p /\ LookupKind(q, p) # "none"
     THEN WithFlag(prev[i], LookupKind(q, p), off) ELSE prev[i]]

\* ------------------------------------------------ the loops at the end of connect
\* The loops without the queue: connect ends after the existing producers.
AdvanceSkipQueue(phase, rest, pend) ==
  IF rest # <<>>
  THEN [pc |-> phase, todo |-> rest, start |-> Head(rest), clear |-> FALSE]
  ELSE [pc |-> "done", todo |-> <<>>, start |-> 0, clear |-> TRUE]

\* Where connect goes after one item of a loop, or on entering a loop: the rest of
\* the list, then the queued producers, then the end.
Advance(phase, rest, pend) ==
  IF rest # <<>>
  THEN [pc |-> phase, todo |-> rest, start |-> Head(rest), clear |-> FALSE]
  ELSE IF phase = "consEx"
       THEN IF pend # <<>>
            THEN [pc |-> "consPend", todo |-> pend, start |-> Head(pend), clear |-> FALSE]
            ELSE [pc |-> "done", todo |-> <<>>, start |-> 0, clear |-> FALSE]
       ELSE [pc |-> "done", todo |-> <<>>, start |-> 0, clear |-> TRUE]

\* A session is torn down for run r when its effect cleanup has run or after
\* disconnect().
TornDown(r) == ~runs[r].mounted \/ leaveCalled
Acts(r, acts) == IF TornDown(r) THEN tornDownActs \cup acts ELSE tornDownActs

\* connect from setLocalParticipant on (lines 565-597): the session becomes
\* active and the first consumeProducer call is made.
Activate(r) ==
  LET a == Advance("consEx", runs[r].existing, pendingProducersRef)
  IN /\ localParticipant' =
          [id |-> "local", isMicrophoneEnabled |-> ~runs[r].muted0,
           isCameraEnabled |-> ~runs[r].videoOff0,
           videoTrack |-> Track("cap", r, "video"),
           audioTrack |-> Track("cap", r, "audio"),
           isMuted |-> runs[r].muted0, isVideoOff |-> runs[r].videoOff0]
     /\ isMuted' = runs[r].muted0
     /\ isVideoOff' = runs[r].videoOff0
     /\ isConnectedRef' = TRUE
     /\ isConnecting' = FALSE
     /\ runs' = [runs EXCEPT ![r].pc = a.pc, ![r].todo = a.todo]
     /\ consumes' = IF a.start = 0 THEN consumes
                    ELSE [consumes EXCEPT ![ConsumerId(r, a.start)] = "req"]
     /\ pendingProducersRef' = IF a.clear THEN <<>> ELSE pendingProducersRef
     /\ tornDownActs' = Acts(r, {"localParticipant", "isConnectedRef"}
                                \cup IF a.start = 0 THEN {} ELSE {"consume"})

\* ---------------------------------------------------------- effects of the hook
\* Effect 1 (lines 316-325): the socket is created.
SocketEffect ==
  /\ socketState = "none"
  /\ socketState' = "connecting"
  /\ UNCHANGED <<rosterVars, localVars, lkVars>>
  /\ UNCHANGED <<deviceRef, sendTransportRef, recvTransportRef, isConnectedRef,
                 isConnecting, error, runs, nRuns, handlersOn, pauseHandlersOn,
                 closedTransports, initialMuted, initialVideoOff, joinReqs,
                 leaveCalled, onDisconnectedCalls, tornDownActs>>

\* The run record of a fresh connect(): it awaits the socket's "connect" event
\* unless the socket is connected, and then emits getRouterRtpCapabilities.
FreshRun == [pc |-> IF socketState = "connected" THEN "caps" ELSE "waitSocket",
             mounted |-> TRUE, muted0 |-> initialMuted', videoOff0 |-> initialVideoOff',
             todo |-> <<>>, existing |-> <<>>]

\* Effect 2 (lines 328-346, 605-750) run for the first time, once the socket is set.
MediasoupEffect ==
  /\ socketState # "none"
  /\ nRuns = 0
  /\ ~isConnectedRef
  /\ nRuns' = 1
  /\ UNCHANGED <<initialMuted, initialVideoOff>>
  /\ runs' = [runs EXCEPT ![1] = FreshRun]
  /\ isConnecting' = TRUE
  /\ error' = "null"
  /\ handlersOn' = TRUE
  /\ pauseHandlersOn' = TRUE
  /\ UNCHANGED <<rosterVars, localVars, lkVars>>
  /\ UNCHANGED <<socketState, deviceRef, sendTransportRef, recvTransportRef,
                 isConnectedRef, closedTransports, joinReqs, leaveCalled,
                 onDisconnectedCalls, tornDownActs>>

\* What the cleanup of effect 2 (lines 752-779) does to the engine and the refs.
CleanupMedia ==
  /\ producerObjs' = [i \in DOMAIN producerObjs |->
                        IF \E k \in Kinds : producersRef[k] = i
                        THEN [producerObjs[i] EXCEPT !.closed = TRUE]
                        ELSE producerObjs[i]]
  /\ producersRef' = [k \in Kinds |-> 0]
  /\ closedConsumers' = closedConsumers \cup consumersRef
  /\ consumersRef' = {}
  /\ closedTransports' = closedTransports \cup ({sendTransportRef, recvTransportRef} \ {0})
  /\ stoppedTracks' = stoppedTracks \cup
        (IF localStreamRef = 0 THEN {}
         ELSE {Track("cap", localStreamRef, k) : k \in Kinds})
  /\ UNCHANGED acquiredTracks

\* The handler of the socket's "disconnect" event (lines 745-750), which runs when
\* a connected socket closes while the handler is registered.
DisconnectHandler ==
  IF socketState = "connected" /\ handlersOn
  THEN /\ isConnectedRef' = FALSE
       /\ onDisconnectedCalls' = onDisconnectedCalls + 1
  ELSE UNCHANGED <<isConnectedRef, onDisconnectedCalls>>

\* Effect 2 run again because one of its dependencies changed (userName,
\* initialMuted, initialVideoOff): React runs the cleanup of the previous run and
\* then the effect body, in one commit.
EffectRerun(m, v) ==
  /\ nRuns >= 1 /\ nRuns < MaxRuns
  /\ runs[nRuns].mounted
  /\ initialMuted' = m /\ initialVideoOff' = v
  /\ CleanupMedia
  /\ isConnectedRef' = FALSE
  /\ nRuns' = nRuns + 1
  /\ runs' = [runs EXCEPT ![nRuns].mounted = FALSE, ![nRuns + 1] = FreshRun]
  /\ isConnecting' = TRUE
  /\ error' = "null"
  /\ handlersOn' = TRUE
  /\ pauseHandlersOn' = TRUE
  /\ UNCHANGED <<participants, pendingProducersRef, consumes, peerHist, announced,
                 queuedEver, pausedProducers>>
  /\ UNCHANGED <<localParticipant, isMuted, isVideoOff, localStreamRef, disabledTracks,
                 toggles, switches, cmdLog>>
  /\ UNCHANGED <<socketState, deviceRef, sendTransportRef, recvTransportRef, joinReqs,
                 leaveCalled, onDisconnectedCalls, tornDownActs>>
  /\ UNCHANGED lkVars

\* The component unmounts: the cleanup of effect 1 (line 323) disconnects the
\* socket, then the cleanup of effect 2 runs.
Unmount ==
  /\ nRuns >= 1
  /\ runs[nRuns].mounted
  /\ socketState' = "closed"
  /\ onDisconnectedCalls' =
        IF socketState = "connected" /\ handlersOn
        THEN onDisconnectedCalls + 1 ELSE onDisconnectedCalls
  /\ CleanupMedia
  /\ isConnectedRef' = FALSE
  /\ runs' = [runs EXCEPT ![nRuns].mounted = FALSE]
  /\ handlersOn' = FALSE
  /\ UNCHANGED <<participants, pendingProducersRef, consumes, peerHist, announced,
                 queuedEver, pausedProducers>>
  /\ UNCHANGED <<localParticipant, isMuted, isVideoOff, localStreamRef, disabledTracks,
                 toggles, switches, cmdLog>>
  /\ UNCHANGED <<deviceRef, sendTransportRef, recvTransportRef, isConnecting, error,
                 nRuns, pauseHandlersOn, initialMuted, initialVideoOff, joinReqs,
                 leaveCalled, tornDownActs>>
  /\ UNCHANGED lkVars

\* disconnect() (lines 873-876): leaveRoom is emitted and the socket closed.
Disconnect ==
  /\ socketState # "none"
  /\ nRuns >= 1
  /\ socketState' = "closed"
  /\ leaveCalled' = TRUE
  /\ DisconnectHandler
  /\ UNCHANGED <<rosterVars, localVars, lkVars>>
  /\ UNCHANGED <<deviceRef, sendTransportRef, recvTransportRef, isConnecting, error,
                 runs, nRuns, handlersOn, pauseHandlersOn, closedTransports,
                 initialMuted, initialVideoOff, joinReqs, tornDownActs>>

\* The server or the network closes the socket.
SocketDrop ==
  /\ socketState = "connected"
  /\ socketState' = "closed"
  /\ DisconnectHandler
  /\ UNCHANGED <<rosterVars, localVars, lkVars>>
  /\ UNCHANGED <<deviceRef, sendTransportRef, recvTransportRef, isConnecting, error,
                 runs, nRuns, handlersOn, pauseHandlersOn, closedTransports,
                 initialMuted, initialVideoOff, joinReqs, leaveCalled, tornDownActs>>

\* ------------------------------------------------------ connect(), step by step
\* The socket's "connect" event: every connect() awaiting it (lines 339-346)
\* resumes, checks mounted and emits getRouterRtpCapabilities.
SocketConnect ==
  /\ socketState = "connecting"
  /\ socketState' = "connected"
  /\ runs' = [r \in Runs |->
               IF runs[r].pc = "waitSocket"
               THEN [runs[r] EXCEPT !.pc = IF runs[r].mounted THEN "caps" ELSE "cancelled"]
               ELSE runs[r]]
  /\ UNCHANGED <<rosterVars, localVars, lkVars>>
  /\ UNCHANGED <<deviceRef, sendTransportRef, recvTransportRef, isConnectedRef,
                 isConnecting, error, nRuns, handlersOn, pauseHandlersOn,
                 closedTransports, initialMuted, initialVideoOff, joinReqs, leaveCalled,
                 onDisconnectedCalls, tornDownActs>>

\* An await of connect() rejects and its catch block runs (lines 598-602): a
\* connect_error, an error response on the socket, or a rejection of device.load,
\* getUserMedia or sendTransport.produce.
FailablePcs == {"caps", "join", "sendT", "recvT", "load", "gum", "prodA", "prodV"}
NeedsSocket == {"caps", "join", "sendT", "recvT"}

\* A catch block that surfaces the error and leaves isConnecting as it is.
ConnectCatchSpinning ==
  /\ error' = "err"
  /\ UNCHANGED isConnecting

\* The catch block of connect() (lines 598-602).
ConnectCatch ==
  /\ error' = "err"
  /\ isConnecting' = FALSE

\* An await of connect() rejects and the catch block runs.
ConnectFail(r) ==
  /\ IF runs[r].pc = "waitSocket" THEN socketState = "connecting"
     ELSE /\ runs[r].pc \in FailablePcs
          /\ runs[r].pc \in NeedsSocket => socketState = "connected"
  /\ runs' = [runs EXCEPT ![r].pc = "failed"]
  /\ ConnectCatch
  /\ UNCHANGED <<rosterVars, localVars, lkVars>>
  /\ UNCHANGED <<socketState, deviceRef, sendTransportRef, recvTransportRef,
                 isConnectedRef, nRuns, handlersOn, pauseHandlersOn, closedTransports,
                 initialMuted, initialVideoOff, joinReqs, leaveCalled,
                 onDisconnectedCalls, tornDownActs>>

\* getRouterRtpCapabilities answered (lines 349-360): device.load starts.
CapsResp(r) ==
  /\ runs[r].pc = "caps"
  /\ socketState = "connected"
  /\ runs' = [runs EXCEPT ![r].pc = "load"]
  /\ UNCHANGED <<rosterVars, localVars, lkVars>>
  /\ UNCHANGED <<socketState, deviceRef, sendTransportRef, recvTransportRef,
                 isConnectedRef, isConnecting, error, nRuns, handlersOn,
                 pauseHandlersOn, closedTransports, initialMuted, initialVideoOff,
                 joinReqs, leaveCalled, onDisconnectedCalls, tornDownActs>>

\* device.load resolved (lines 360-372): deviceRef is set and joinRoom emitted.
DeviceLoaded(r) ==
  /\ runs[r].pc = "load"
  /\ deviceRef' = r
  /\ joinReqs' = joinReqs + 1
  /\ runs' = [runs EXCEPT ![r].pc = "join"]
  /\ UNCHANGED <<rosterVars, localVars, lkVars>>
  /\ UNCHANGED <<socketState, sendTransportRef, recvTransportRef, isConnectedRef,
                 isConnecting, error, nRuns, handlersOn, pauseHandlersOn,
                 closedTransports, initialMuted, initialVideoOff, leaveCalled,
                 onDisconnectedCalls, tornDownActs>>

\* joinRoom answered with the peers and the existing producers (lines 364-403):
\* connect returns when not mounted, else replaces the roster and asks for the
\* send transport.
JoinResp(r, peers, existing) ==
  /\ runs[r].pc = "join"
  /\ socketState = "connected"
  /\ IF ~runs[r].mounted
     THEN /\ runs' = [runs EXCEPT ![r].pc = "cancelled"]
          /\ UNCHANGED <<participants, peerHist, tornDownActs>>
     ELSE /\ runs' = [runs EXCEPT ![r].pc = "sendT", ![r].existing = existing]
          /\ participants' = InitialRoster(peers)
          /\ peerHist' = [p \in Peers |-> IF p \in Range(peers) THEN "joined" ELSE peerHist[p]]
          /\ tornDownActs' = Acts(r, {"participants"})
  /\ UNCHANGED <<consumersRef, pendingProducersRef, consumes, closedConsumers,
                 announced, queuedEver, pausedProducers>>
  /\ UNCHANGED <<localVars, lkVars>>
  /\ UNCHANGED <<socketState, deviceRef, sendTransportRef, recvTransportRef,
                 isConnectedRef, isConnecting, error, nRuns, handlersOn,
                 pauseHandlersOn, closedTransports, initialMuted, initialVideoOff,
                 joinReqs, leaveCalled, onDisconnectedCalls>>

\* createWebRtcTransport(send) answered (lines 389-493).
SendTransportResp(r) ==
  /\ runs[r].pc = "sendT"
  /\ socketState = "connected"
  /\ sendTransportRef' = r
  /\ runs' = [runs EXCEPT ![r].pc = "recvT"]
  /\ UNCHANGED <<rosterVars, localVars, lkVars>>
  /\ UNCHANGED <<socketState, deviceRef, recvTransportRef, isConnectedRef,
                 isConnecting, error, nRuns, handlersOn, pauseHandlersOn,
                 closedTransports, initialMuted, initialVideoOff, joinReqs,
                 leaveCalled, onDisconnectedCalls, tornDownActs>>

\* createWebRtcTransport(recv) answered (lines 479-539): getUserMedia is called.
RecvTransportResp(r) ==
  /\ runs[r].pc = "recvT"
  /\ socketState = "connected"
  /\ recvTransportRef' = r
  /\ runs' = [runs EXCEPT ![r].pc = "gum"]
  /\ UNCHANGED <<rosterVars, localVars, lkVars>>
  /\ UNCHANGED <<socketState, deviceRef, sendTransportRef, isConnectedRef,
                 isConnecting, error, nRuns, handlersOn, pauseHandlersOn,
                 closedTransports, initialMuted, initialVideoOff, joinReqs,
                 leaveCalled, onDisconnectedCalls, tornDownActs>>

\* The video branch (lines 555-563) and what follows it: produce is awaited, or
\* the track is disabled and the session becomes active.
VideoStep(r, disabled) ==
  IF ~runs[r].videoOff0
  THEN /\ runs' = [runs EXCEPT ![r].pc = "prodV"]
       /\ disabledTracks' = disabled
       /\ UNCHANGED <<localParticipant, isMuted, isVideoOff, isConnectedRef,
                      isConnecting, consumes, pendingProducersRef, tornDownActs>>
  ELSE /\ disabledTracks' = disabled \cup {Track("cap", r, "video")}
       /\ Activate(r)

\* getUserMedia resolved (lines 537-553).
GumResolved(r) ==
  /\ runs[r].pc = "gum"
  /\ localStreamRef' = r
  /\ acquiredTracks' = acquiredTracks \cup {Track("cap", r, k) : k \in Kinds}
  /\ IF ~runs[r].muted0
     THEN /\ runs' = [runs EXCEPT ![r].pc = "prodA"]
          /\ UNCHANGED <<disabledTracks, localParticipant, isMuted, isVideoOff,
                         isConnectedRef, isConnecting, consumes, pendingProducersRef,
                         tornDownActs>>
     ELSE VideoStep(r, disabledTracks \cup {Track("cap", r, "audio")})
  /\ UNCHANGED <<participants, consumersRef, closedConsumers, peerHist, announced,
                 queuedEver, pausedProducers>>
  /\ UNCHANGED <<producersRef, producerObjs, stoppedTracks, toggles, switches, cmdLog>>
  /\ UNCHANGED <<socketState, deviceRef, sendTransportRef, recvTransportRef, error,
                 nRuns, handlersOn, pauseHandlersOn, closedTransports, initialMuted,
                 initialVideoOff, joinReqs, leaveCalled, onDisconnectedCalls>>
  /\ UNCHANGED lkVars

\* A producer made by sendTransport.produce({track}).
NewProducerObj(kind, track) ==
  [kind |-> kind, track |-> track, paused |-> FALSE, closed |-> FALSE]

\* sendTransport.produce(audio) resolved (lines 547-563).
ProduceAudioDone(r) ==
  /\ runs[r].pc = "prodA"
  /\ socketState = "connected"
  /\ r \notin closedTransports
  /\ producerObjs' = Append(producerObjs, NewProducerObj("audio", Track("cap", r, "audio")))
  /\ producersRef' = [producersRef EXCEPT !["audio"] = Len(producerObjs) + 1]
  /\ VideoStep(r, disabledTracks)
  /\ UNCHANGED <<participants, consumersRef, closedConsumers, peerHist, announced,
                 queuedEver, pausedProducers>>
  /\ UNCHANGED <<localStreamRef, stoppedTracks, acquiredTracks, toggles, switches, cmdLog>>
  /\ UNCHANGED <<socketState, deviceRef, sendTransportRef, recvTransportRef, error,
                 nRuns, handlersOn, pauseHandlersOn, closedTransports, initialMuted,
                 initialVideoOff, joinReqs, leaveCalled, onDisconnectedCalls>>
  /\ UNCHANGED lkVars

\* sendTransport.produce(video) resolved (lines 557-597).
ProduceVideoDone(r) ==
  /\ runs[r].pc = "prodV"
  /\ socketState = "connected"
  /\ r \notin closedTransports
  /\ producerObjs' = Append(producerObjs, NewProducerObj("video", Track("cap", r, "video")))
  /\ producersRef' = [producersRef EXCEPT !["video"] = Len(producerObjs) + 1]
  /\ Activate(r)
  /\ UNCHANGED <<participants, consumersRef, closedConsumers, peerHist, announced,
                 queuedEver, pausedProducers>>
  /\ UNCHANGED <<localStreamRef, disabledTracks, stoppedTracks, acquiredTracks, toggles, switches, cmdLog>>
  /\ UNCHANGED <<socketState, deviceRef, sendTransportRef, recvTransportRef, error,
                 nRuns, handlersOn, pauseHandlersOn, closedTransports, initialMuted,
                 initialVideoOff, joinReqs, leaveCalled, onDisconnectedCalls>>
  /\ UNCHANGED lkVars

\* ------------------------------------------------------------ consumeProducer
\* The run of connect() that awaits the consumeProducer call of consumer c in one
\* of its loops (lines 584-595), if any.
Awaiters(c) ==
  {r \in Runs : /\ runs[r].pc \in {"consEx", "consPend"}
                /\ runs[r].todo # <<>>
                /\ ConsumerId(r, Head(runs[r].todo)) = c}

\* consumeProducer of consumer c ends with `result`; a connect() awaiting it goes
\* on with its loop and makes its next consumeProducer call.
FinishConsume(c, result) ==
  IF Awaiters(c) = {}
  THEN /\ consumes' = [consumes EXCEPT ![c] = result]
       /\ UNCHANGED <<runs, pendingProducersRef, tornDownActs>>
  ELSE LET r == CHOOSE x \in Awaiters(c) : TRUE
           a == Advance(runs[r].pc, Tail(runs[r].todo), pendingProducersRef)
       IN /\ runs' = [runs EXCEPT ![r].pc = a.pc, ![r].todo = a.todo]
          /\ consumes' = IF a.start = 0 THEN [consumes EXCEPT ![c] = result]
                         ELSE [consumes EXCEPT ![c] = result,
                                               ![ConsumerId(r, a.start)] = "req"]
          /\ pendingProducersRef' = IF a.clear THEN <<>> ELSE pendingProducersRef
          /\ tornDownActs' = Acts(r, IF a.start = 0 THEN {} ELSE {"consume"})

\* The "consume" request is answered (lines 238-259): recvTransport.consume starts.
ConsumeResp(c) ==
  /\ consumes[c] = "req"
  /\ socketState = "connected"
  /\ consumes' = [consumes EXCEPT ![c] = "create"]
  /\ UNCHANGED <<participants, consumersRef, pendingProducersRef, closedConsumers,
                 peerHist, announced, queuedEver, pausedProducers>>
  /\ UNCHANGED <<sessionVars, localVars, lkVars>>

\* recvTransport.consume resolved (lines 254-268): the consumer is registered and
\* resumeConsumer is emitted.
ConsumerCreated(c) ==
  /\ consumes[c] = "create"
  /\ recvTransportRef \notin closedTransports
  /\ consumersRef' = consumersRef \cup {c}
  /\ consumes' = [consumes EXCEPT ![c] = "resume"]
  /\ UNCHANGED <<participants, pendingProducersRef, closedConsumers, peerHist,
                 announced, queuedEver, pausedProducers>>
  /\ UNCHANGED <<sessionVars, localVars, lkVars>>

\* resumeConsumer is answered (lines 268-307): the roster gets the track.
ConsumeResumed(c) ==
  /\ consumes[c] = "resume"
  /\ socketState = "connected"
  /\ participants' = ConsumedUpdater(participants, ConsumerPeer(c), ConsumerKind(c), c)
  /\ FinishConsume(c, "ok")
  /\ UNCHANGED <<consumersRef, closedConsumers, peerHist, announced, queuedEver, pausedProducers>>
  /\ UNCHANGED <<socketState, deviceRef, sendTransportRef, recvTransportRef,
                 isConnectedRef, isConnecting, error, nRuns, handlersOn,
                 pauseHandlersOn, closedTransports, initialMuted, initialVideoOff,
                 joinReqs, leaveCalled, onDisconnectedCalls>>
  /\ UNCHANGED <<localVars, lkVars>>

\* An await of consumeProducer rejects and its catch block runs (lines 308-310).
ConsumeFail(c) ==
  /\ consumes[c] \in {"req", "create", "resume"}
  /\ consumes[c] \in {"req", "resume"} => socketState = "connected"
  /\ FinishConsume(c, "err")
  /\ UNCHANGED <<participants, consumersRef, closedConsumers, peerHist, announced,
                 queuedEver, pausedProducers>>
  /\ UNCHANGED <<socketState, deviceRef, sendTransportRef, recvTransportRef,
                 isConnectedRef, isConnecting, error, nRuns, handlersOn,
                 pauseHandlersOn, closedTransports, initialMuted, initialVideoOff,
                 joinReqs, leaveCalled, onDisconnectedCalls>>
  /\ UNCHANGED <<localVars, lkVars>>

\* ------------------------------------------------------- socket event handlers
\* A socket event reaches its handler: the socket is connected and effect 2 has
\* registered the handlers.
Delivers == socketState = "connected" /\ handlersOn

\* newPeer (lines 608-623).
NewPeer(p) ==
  /\ Delivers
  /\ participants' = NewPeerUpdater(participants, p)
  /\ peerHist' = [peerHist EXCEPT ![p] = IF InRoster(p) THEN "dup" ELSE "joined"]
  /\ UNCHANGED <<consumersRef, pendingProducersRef, consumes, closedConsumers,
                 announced, queuedEver, pausedProducers>>
  /\ UNCHANGED <<sessionVars, localVars, lkVars>>

\* peerLeft (lines 637-646): the entry and the peer's registered consumers go.
PeerLeft(p) ==
  /\ Delivers
  /\ participants' = PeerLeftUpdater(participants, p)
  /\ consumersRef' = {c \in consumersRef : ConsumerPeer(c) # p}
  /\ peerHist' = [peerHist EXCEPT ![p] = "left"]
  /\ pausedProducers' = {q \in pausedProducers : ProducerPeer(q) # p}
  /\ UNCHANGED <<pendingProducersRef, consumes, closedConsumers, announced, queuedEver>>
  /\ UNCHANGED <<sessionVars, localVars, lkVars>>

\* newProducer (lines 625-635): queued while the receive transport or the device
\* is missing, consumed otherwise.  The server announces a producer once, for a
\* peer that has not left, and never one it listed in a joinRoom response.
NewProducer(q) ==
  /\ Delivers
  /\ q \notin announced
  /\ \A r \in Runs : q \notin Range(runs[r].existing)
  /\ peerHist[ProducerPeer(q)] # "left"
  /\ announced' = announced \cup {q}
  /\ IF recvTransportRef = 0 \/ deviceRef = 0
     THEN /\ pendingProducersRef' = Append(pendingProducersRef, q)
          /\ queuedEver' = queuedEver \cup {q}
          /\ UNCHANGED consumes
     ELSE /\ consumes' = [consumes EXCEPT ![ConsumerId(nRuns, q)] = "req"]
          /\ UNCHANGED <<pendingProducersRef, queuedEver>>
  /\ UNCHANGED <<participants, consumersRef, closedConsumers, peerHist, pausedProducers>>
  /\ UNCHANGED <<sessionVars, localVars, lkVars>>

\* consumerClosed (lines 648-670).
ConsumerClosed(c) ==
  /\ Delivers
  /\ IF c \in consumersRef
     THEN /\ closedConsumers' = closedConsumers \cup {c}
          /\ consumersRef' = consumersRef \ {c}
          /\ participants' = ConsumerClosedUpdater(participants, ConsumerPeer(c), ConsumerKind(c))
     ELSE UNCHANGED <<closedConsumers, consumersRef, participants>>
  /\ UNCHANGED <<pendingProducersRef, consumes, peerHist, announced, queuedEver,
                 pausedProducers>>
  /\ UNCHANGED <<sessionVars, localVars, lkVars>>

\* producerPaused (lines 672-703).
ProducerPaused(q) ==
  /\ socketState = "connected" /\ pauseHandlersOn
  /\ participants' = PauseUpdater(participants, q, ProducerPeer(q), TRUE)
  /\ pausedProducers' = pausedProducers \cup {q}
  /\ UNCHANGED <<consumersRef, pendingProducersRef, consumes, closedConsumers,
                 peerHist, announced, queuedEver>>
  /\ UNCHANGED <<sessionVars, localVars, lkVars>>

\* producerResumed (lines 705-730).
ProducerResumed(q) ==
  /\ socketState = "connected" /\ pauseHandlersOn
  /\ participants' = PauseUpdater(participants, q, ProducerPeer(q), FALSE)
  /\ pausedProducers' = pausedProducers \ {q}
  /\ UNCHANGED <<consumersRef, pendingProducersRef, consumes, closedConsumers,
                 peerHist, announced, queuedEver>>
  /\ UNCHANGED <<sessionVars, localVars, lkVars>>

\* producerClosed (lines 732-743).
ProducerClosed(q) ==
  /\ Delivers
  /\ participants' = ProducerClosedUpdater(participants, ProducerPeer(q))
  /\ UNCHANGED <<consumersRef, pendingProducersRef, consumes, closedConsumers,
                 peerHist, announced, queuedEver, pausedProducers>>
  /\ UNCHANGED <<sessionVars, localVars, lkVars>>

\* ------------------------------------------------------------- specifications
\* The joinRoom responses of the server: the peers of the room in some order,
\* without repetition, and producers of those peers that it has not announced.
Responses ==
  {<<SeqOfSet(S), SeqOfSet(E)>> :
     S \in SUBSET Peers, E \in SUBSET (Producers \ announced)}
ListedOk(resp) ==
  \A i \in DOMAIN resp[2] :
     /\ ProducerPeer(resp[2][i]) \in Range(resp[1])
     /\ resp[2][i] \notin Range(pendingProducersRef)

JoinAnswered(r) ==
  \E resp \in Responses : ListedOk(resp) /\ JoinResp(r, resp[1], resp[2])

\* The joinRoom response of a room in which every peer is present and producer 1
\* is published.
JoinAnsweredFull(r) == JoinResp(r, SeqOfSet(Peers), <<1>>)

\* The joinRoom response of a room with nobody else in it.
JoinAnsweredEmpty(r) == JoinResp(r, <<>>, <<>>)

\* The roster of one session: the join and the peers' events, in any order.
NextRoster ==
  \/ SocketEffect
  \/ MediasoupEffect
  \/ SocketConnect
  \/ \E r \in Runs : ConnectFail(r)
  \/ \E r \in Runs : CapsResp(r)
  \/ \E r \in Runs : DeviceLoaded(r)
  \/ \E r \in Runs : JoinAnswered(r)
  \/ \E r \in Runs : SendTransportResp(r)
  \/ \E r \in Runs : RecvTransportResp(r)
  \/ \E r \in Runs : GumResolved(r)
  \/ \E c \in ConsumerIds : ConsumeResp(c)
  \/ \E c \in ConsumerIds : ConsumerCreated(c)
  \/ \E c \in ConsumerIds : ConsumeResumed(c)
  \/ \E c \in ConsumerIds : ConsumeFail(c)
  \/ \E p \in Peers : NewPeer(p)
  \/ \E p \in Peers : PeerLeft(p)
  \/ \E q \in Producers : NewProducer(q)
  \/ \E c \in ConsumerIds : ConsumerClosed(c)
  \/ \E q \in Producers : ProducerPaused(q)
  \/ \E q \in Producers : ProducerResumed(q)
  \/ \E q \in Producers : ProducerClosed(q)

\* A user who joins with the microphone and the camera off.
InitRoster == Init /\ initialMuted /\ initialVideoOff
SpecRoster == InitRoster /\ [][NextRoster]_vars

\* ------------------------------------------------- toggleMute / toggleVideo
KindFlag(kind) == IF kind = "audio" THEN isMuted ELSE isVideoOff
LocalTrackOf(kind) ==
  IF localStreamRef = 0 THEN NoTrack ELSE Track("cap", localStreamRef, kind)

\* setIsMuted / setIsVideoOff and the setLocalParticipant updater at the end of a
\* toggle (lines 811-814, 825-828, 852-855, 866-869).
ToggleCommit(kind, off) ==
  /\ IF kind = "audio"
     THEN isMuted' = off /\ UNCHANGED isVideoOff
     ELSE isVideoOff' = off /\ UNCHANGED isMuted
  /\ localParticipant' =
       IF localParticipant = NoLocal THEN NoLocal
       ELSE IF kind = "audio"
            THEN [localParticipant EXCEPT !.isMicrophoneEnabled = ~off, !.isMuted = off]
            ELSE [localParticipant EXCEPT !.isCameraEnabled = ~off, !.isVideoOff = off]

\* The local state a toggle of the kind can touch.
LocalSnapshot(kind) ==
  [isMuted |-> isMuted, isVideoOff |-> isVideoOff, localParticipant |-> localParticipant,
   trackEnabled |-> LocalTrackOf(kind) \notin disabledTracks,
   producersRef |-> producersRef, isConnectedRef |-> isConnectedRef]

\* The record of one toggle call: the flag its closure read, the producer it
\* found, where it is, whether the session was active, whether an earlier
\* call was still awaiting, and (history) the local state before the call.
ToggleRec(kind, was, prod, pc) ==
  [kind |-> kind, was |-> was, prod |-> prod, pc |-> pc,
   live |-> localParticipant # NoLocal,
   before |-> LocalSnapshot(kind),
   overlap |-> \E i \in DOMAIN toggles : toggles[i].kind = kind /\ toggles[i].pc \notin {"done", "failed"}]

\* toggleMute() / toggleVideo() is called (lines 791-810, 816-824, 832-851,
\* 857-865): it runs up to its await, or to its end when it awaits nothing.
ToggleCall(kind) ==
  LET prod == producersRef[kind]
      track == LocalTrackOf(kind)
      was == KindFlag(kind)
  IN /\ Len(toggles) < MaxToggles
     /\ IF prod # 0
        THEN \* producer.resume() or producer.pause()
             /\ producerObjs' = [producerObjs EXCEPT ![prod].paused = ~was]
             /\ cmdLog' = Append(cmdLog, [cmd |-> IF was THEN "resume" ELSE "pause", kind |-> kind])
             /\ toggles' = Append(toggles, ToggleRec(kind, was, prod, "cmd"))
             /\ UNCHANGED <<disabledTracks, isMuted, isVideoOff, localParticipant>>
        ELSE IF was /\ track # NoTrack /\ sendTransportRef # 0
        THEN \* track.enabled = true; sendTransport.produce({track})
             /\ disabledTracks' = disabledTracks \ {track}
             /\ cmdLog' = Append(cmdLog, [cmd |-> "produce", kind |-> kind])
             /\ toggles' = Append(toggles, ToggleRec(kind, was, 0, "produce"))
             /\ UNCHANGED <<producerObjs, isMuted, isVideoOff, localParticipant>>
        ELSE /\ toggles' = Append(toggles, ToggleRec(kind, was, 0, "done"))
             /\ ToggleCommit(kind, ~was)
             /\ UNCHANGED <<producerObjs, cmdLog, disabledTracks>>
     /\ UNCHANGED <<producersRef, localStreamRef, stoppedTracks, acquiredTracks, switches>>
     /\ UNCHANGED <<rosterVars, sessionVars, lkVars>>

\* The awaited pause() / resume() of toggle call i is over: pauseProducer or
\* resumeProducer is emitted and the state set.
ToggleCmdDone(i) ==
  /\ i \in DOMAIN toggles
  /\ toggles[i].pc = "cmd"
  /\ toggles' = [toggles EXCEPT ![i].pc = "done"]
  /\ ToggleCommit(toggles[i].kind, ~toggles[i].was)
  /\ UNCHANGED <<producersRef, localStreamRef, producerObjs, disabledTracks,
                 stoppedTracks, acquiredTracks, switches, cmdLog>>
  /\ UNCHANGED <<rosterVars, sessionVars, lkVars>>

\* The awaited sendTransport.produce of toggle call i resolved: the producer is
\* put into producersRef and the state set.
ToggleProduceDone(i) ==
  /\ i \in DOMAIN toggles
  /\ toggles[i].pc = "produce"
  /\ socketState = "connected"
  /\ sendTransportRef \notin closedTransports
  /\ producerObjs' = Append(producerObjs,
                        NewProducerObj(toggles[i].kind, LocalTrackOf(toggles[i].kind)))
  /\ producersRef' = [producersRef EXCEPT ![toggles[i].kind] = Len(producerObjs) + 1]
  /\ toggles' = [toggles EXCEPT ![i].pc = "done"]
  /\ ToggleCommit(toggles[i].kind, FALSE)
  /\ UNCHANGED <<localStreamRef, disabledTracks, stoppedTracks, acquiredTracks, switches, cmdLog>>
  /\ UNCHANGED <<rosterVars, sessionVars, lkVars>>

\* The awaited sendTransport.produce of toggle call i rejected: the toggle has no
\* try/catch, so it ends there.  (pause() and resume() of a mediasoup-client
\* producer are synchronous and do not reject.)
ToggleProduceFail(i) ==
  /\ i \in DOMAIN toggles
  /\ toggles[i].pc = "produce"
  /\ toggles' = [toggles EXCEPT ![i].pc = "failed"]
  /\ UNCHANGED <<localParticipant, isMuted, isVideoOff, producersRef, localStreamRef,
                 producerObjs, disabledTracks, stoppedTracks, acquiredTracks, switches, cmdLog>>
  /\ UNCHANGED <<rosterVars, sessionVars, lkVars>>

\* ---------------------------------------- changeAudioInput / changeVideoInput
SetLocalTrack(kind, track) ==
  IF localParticipant = NoLocal THEN NoLocal
  ELSE IF kind = "audio" THEN [localParticipant EXCEPT !.audioTrack = track]
       ELSE [localParticipant EXCEPT !.videoTrack = track]

\* The track the producer of the kind holds, if there is one.
ProducerTrack(kind) ==
  IF producersRef[kind] = 0 THEN NoTrack ELSE producerObjs[producersRef[kind]].track

\* The tracks of the kind in use and the session's state: what a device switch
\* of the kind can touch.
SwitchSnapshot(kind) ==
  [local |-> IF kind = "audio" THEN localParticipant.audioTrack
             ELSE localParticipant.videoTrack,
   produced |-> ProducerTrack(kind), isConnectedRef |-> isConnectedRef, error |-> error]

\* changeAudioInput(deviceId) / changeVideoInput(deviceId) is called (lines
\* 878-882, 899-903): getUserMedia of that device starts.  The record keeps
\* (history) the state before the call.
ChangeInputCall(kind) ==
  /\ Len(switches) < MaxSwitches
  /\ switches' = Append(switches,
       [kind |-> kind, pc |-> "gum", prod |-> 0,
        live |-> localParticipant # NoLocal,
        overlap |-> \E i \in DOMAIN switches :
                       switches[i].kind = kind /\ switches[i].pc \notin {"done", "failed"},
        before |-> SwitchSnapshot(kind), threw |-> FALSE])
  /\ UNCHANGED <<localParticipant, isMuted, isVideoOff, producersRef, localStreamRef,
                 producerObjs, disabledTracks, stoppedTracks, acquiredTracks, toggles, cmdLog>>
  /\ UNCHANGED <<rosterVars, sessionVars, lkVars>>

\* getUserMedia of switch call i resolved (lines 883-893, 904-914): replaceTrack
\* is awaited when there is a producer, else localParticipant gets the track.
SwitchGumResolved(i) ==
  LET k == switches[i].kind
      prod == producersRef[k]
  IN /\ i \in DOMAIN switches
     /\ switches[i].pc = "gum"
     /\ IF prod # 0
        THEN /\ switches' = [switches EXCEPT ![i].pc = "replace", ![i].prod = prod]
             /\ UNCHANGED localParticipant
        ELSE /\ switches' = [switches EXCEPT ![i].pc = "done"]
             /\ localParticipant' = SetLocalTrack(k, Track("sw", i, k))
     /\ acquiredTracks' = acquiredTracks \cup {Track("sw", i, k)}
     /\ UNCHANGED <<isMuted, isVideoOff, producersRef, localStreamRef, producerObjs,
                    disabledTracks, stoppedTracks, toggles, cmdLog>>
     /\ UNCHANGED <<rosterVars, sessionVars, lkVars>>

\* producer.replaceTrack of switch call i resolved (lines 887-893, 908-914).
SwitchReplaced(i) ==
  LET k == switches[i].kind
  IN /\ i \in DOMAIN switches
     /\ switches[i].pc = "replace"
     /\ ~producerObjs[switches[i].prod].closed
     /\ producerObjs' = [producerObjs EXCEPT ![switches[i].prod].track = Track("sw", i, k)]
     /\ switches' = [switches EXCEPT ![i].pc = "done"]
     /\ localParticipant' = SetLocalTrack(k, Track("sw", i, k))
     /\ UNCHANGED <<isMuted, isVideoOff, producersRef, localStreamRef, disabledTracks,
                    stoppedTracks, acquiredTracks, toggles, cmdLog>>
     /\ UNCHANGED <<rosterVars, sessionVars, lkVars>>

\* localParticipant with the track of a switch call that already set it before
\* its awaits were over.
SwitchFailedOptimistic(kind, track) == SetLocalTrack(kind, track)

\* localParticipant after a failed switch call: setLocalParticipant comes after
\* the awaits (lines 890-893, 911-914), so the catch block finds it untouched.
SwitchFailedLocal(kind, track) == localParticipant

\* getUserMedia or producer.replaceTrack of switch call i rejected: the catch
\* block (lines 894-896, 915-917) logs the error and the call returns.
SwitchFail(i) ==
  /\ i \in DOMAIN switches
  /\ switches[i].pc \in {"gum", "replace"}
  /\ switches' = [switches EXCEPT ![i].pc = "failed"]
  /\ localParticipant' = SwitchFailedLocal(switches[i].kind, Track("sw", i, switches[i].kind))
  /\ UNCHANGED <<isMuted, isVideoOff, producersRef, localStreamRef, producerObjs,
                 disabledTracks, stoppedTracks, acquiredTracks, toggles, cmdLog>>
  /\ UNCHANGED <<rosterVars, sessionVars, lkVars>>

\* The lifecycle of the session: effect runs, cleanup, disconnect and the
\* continuations of connect().
NextSession ==
  \/ SocketEffect
  \/ MediasoupEffect
  \/ EffectRerun(initialMuted, initialVideoOff)
  \/ Unmount
  \/ Disconnect
  \/ SocketDrop
  \/ SocketConnect
  \/ \E r \in Runs : ConnectFail(r)
  \/ \E r \in Runs : CapsResp(r)
  \/ \E r \in Runs : DeviceLoaded(r)
  \/ \E r \in Runs : JoinAnsweredFull(r)
  \/ \E r \in Runs : SendTransportResp(r)
  \/ \E r \in Runs : RecvTransportResp(r)
  \/ \E r \in Runs : GumResolved(r)
  \/ \E r \in Runs : ProduceAudioDone(r)
  \/ \E r \in Runs : ProduceVideoDone(r)
  \/ \E c \in ConsumerIds : ConsumeResp(c)
  \/ \E c \in ConsumerIds : ConsumerCreated(c)
  \/ \E c \in ConsumerIds : ConsumeResumed(c)
  \/ \E c \in ConsumerIds : ConsumeFail(c)

\* A user who joins with the camera on.
InitSession == Init /\ ~initialVideoOff
SpecSession == InitSession /\ [][NextSession]_vars

\* One join on a socket that can drop: the steps of connect(), each of which
\* happens when its request is answered or its promise settles, and nothing the
\* caller does.
NextJoin ==
  \/ SocketEffect
  \/ MediasoupEffect
  \/ SocketDrop
  \/ SocketConnect
  \/ \E r \in Runs : ConnectFail(r)
  \/ \E r \in Runs : CapsResp(r)
  \/ \E r \in Runs : DeviceLoaded(r)
  \/ \E r \in Runs : JoinAnsweredFull(r)
  \/ \E r \in Runs : SendTransportResp(r)
  \/ \E r \in Runs : RecvTransportResp(r)
  \/ \E r \in Runs : GumResolved(r)
  \/ \E r \in Runs : ProduceAudioDone(r)
  \/ \E r \in Runs : ProduceVideoDone(r)
  \/ \E c \in ConsumerIds : ConsumeResp(c)
  \/ \E c \in ConsumerIds : ConsumerCreated(c)
  \/ \E c \in ConsumerIds : ConsumeResumed(c)
  \/ \E c \in ConsumerIds : ConsumeFail(c)

\* The event loop runs every continuation that is ready: a connected socket's
\* requests are answered and the promises of the browser and the engine settle.
FairJoin ==
  /\ WF_vars(SocketEffect) /\ WF_vars(MediasoupEffect) /\ WF_vars(SocketConnect)
  /\ \A r \in Runs :
       /\ WF_vars(CapsResp(r)) /\ WF_vars(DeviceLoaded(r)) /\ WF_vars(JoinAnsweredFull(r))
       /\ WF_vars(SendTransportResp(r)) /\ WF_vars(RecvTransportResp(r))
       /\ WF_vars(GumResolved(r)) /\ WF_vars(ProduceAudioDone(r))
       /\ WF_vars(ProduceVideoDone(r))
  /\ \A c \in ConsumerIds :
       /\ WF_vars(ConsumeResp(c)) /\ WF_vars(ConsumerCreated(c))
       /\ WF_vars(ConsumeResumed(c))

SpecJoinFair == Init /\ [][NextJoin]_vars /\ FairJoin

\* The local controls of one session in a room with nobody else: the join, the
\* toggles and the device switches.
NextLocal ==
  \/ SocketEffect
  \/ MediasoupEffect
  \/ SocketConnect
  \/ \E r \in Runs : CapsResp(r)
  \/ \E r \in Runs : DeviceLoaded(r)
  \/ \E r \in Runs : JoinAnsweredEmpty(r)
  \/ \E r \in Runs : SendTransportResp(r)
  \/ \E r \in Runs : RecvTransportResp(r)
  \/ \E r \in Runs : GumResolved(r)
  \/ \E r \in Runs : ProduceAudioDone(r)
  \/ \E r \in Runs : ProduceVideoDone(r)
  \/ \E k \in Kinds : ToggleCall(k)
  \/ \E i \in 1..MaxToggles : ToggleCmdDone(i)
  \/ \E i \in 1..MaxToggles : ToggleProduceDone(i)
  \/ \E i \in 1..MaxToggles : ToggleProduceFail(i)
  \/ \E k \in Kinds : ChangeInputCall(k)
  \/ \E i \in 1..MaxSwitches : SwitchGumResolved(i)
  \/ \E i \in 1..MaxSwitches : SwitchReplaced(i)
  \/ \E i \in 1..MaxSwitches : SwitchFail(i)

SpecLocal == Init /\ [][NextLocal]_vars

\* ------------------------------------------------------------------ useLiveKit
\* Identities: the remote participants 1..NumPeers and the local participant;
\* activeSpeaker 0 is null.
LkRemoteIds == 1..NumPeers
LkLocalId == NumPeers + 1

\* The ranked lists an ActiveSpeakersChanged event can carry: identities, none
\* twice, at most MaxSpeakers of them.
SpeakerReports ==
  {sp \in Rosters(LkRemoteIds \cup {LkLocalId}) : Len(sp) <= MaxSpeakers}

\* The ActiveSpeakersChanged handler that also takes an empty list, as "nobody".
ActiveSpeakerClearing(prev, speakers) ==
  IF Len(speakers) > 0 THEN speakers[1] ELSE 0

\* The ActiveSpeakersChanged handler (lines 114-118).
ActiveSpeakerUpdater(prev, speakers) ==
  IF Len(speakers) > 0 THEN speakers[1] ELSE prev

\* The effect (lines 44-73, 140): the Room is made and connectRoom() called.
LkEffect ==
  /\ lkPc = "idle"
  /\ ~lkIsConnectingRef /\ ~lkHasConnectedRef
  /\ lkMounted' = TRUE
  /\ lkIsConnectingRef' = TRUE
  /\ lkIsConnecting' = TRUE
  /\ lkError' = "null"
  /\ lkSdk' = [lkSdk EXCEPT !.state = "connecting"]
  /\ lkPc' = "connect"
  /\ UNCHANGED <<lkRoom, lkParticipants, lkLocalParticipant, lkIsMuted, lkIsVideoOff,
                 lkActiveSpeaker, lkHasConnectedRef, lkHandlersOn, lkLastReport,
                 lkReportTick, lkOnDisconnectedCalls>>
  /\ UNCHANGED msVars
  /\ UNCHANGED lkCallVars

\* lkRoom.connect resolved, with the participants `remote` in the room (lines
\* 77-93): the session is set up and enableCameraAndMicrophone called, or, when
\* not mounted, the room is disconnected.
LkConnected(remote) ==
  /\ lkPc = "connect"
  /\ lkSdk.state = "connecting" \/ ~lkMounted
  /\ IF ~lkMounted
     THEN /\ lkSdk' = [lkSdk EXCEPT !.state = "disconnected"]
          /\ lkIsConnectingRef' = FALSE
          /\ lkPc' = "cancelled"
          /\ UNCHANGED <<lkHasConnectedRef, lkRoom, lkLocalParticipant, lkParticipants>>
     ELSE /\ lkSdk' = [lkSdk EXCEPT !.state = "connected", !.remote = remote]
          /\ lkHasConnectedRef' = TRUE
          /\ lkRoom' = TRUE
          /\ lkLocalParticipant' = TRUE
          /\ lkParticipants' = SeqOfSet(remote)
          /\ lkPc' = "enable"
          /\ UNCHANGED lkIsConnectingRef
  /\ UNCHANGED <<lkIsConnecting, lkError, lkIsMuted, lkIsVideoOff, lkActiveSpeaker,
                 lkMounted, lkHandlersOn, lkLastReport, lkReportTick,
                 lkOnDisconnectedCalls>>
  /\ UNCHANGED msVars
  /\ UNCHANGED lkCallVars

\* lkRoom.connect rejected: the outer catch (lines 132-137).
LkConnectFail ==
  /\ lkPc = "connect"
  /\ lkError' = "err"
  /\ lkIsConnecting' = FALSE
  /\ lkIsConnectingRef' = FALSE
  /\ lkSdk' = [lkSdk EXCEPT !.state = "disconnected"]
  /\ lkPc' = "failed"
  /\ UNCHANGED <<lkRoom, lkParticipants, lkLocalParticipant, lkIsMuted, lkIsVideoOff,
                 lkActiveSpeaker, lkHasConnectedRef, lkMounted, lkHandlersOn,
                 lkLastReport, lkReportTick, lkOnDisconnectedCalls>>
  /\ UNCHANGED msVars
  /\ UNCHANGED lkCallVars

\* enableCameraAndMicrophone settled (lines 93-131): resolved (ok) or rejected
\* into the inner catch; then isConnecting is reset and the room event handlers
\* are registered.
LkEnableSettled(ok) ==
  /\ lkPc = "enable"
  /\ IF ok
     THEN /\ lkSdk' = IF lkSdk.state = "connected"
                      THEN [lkSdk EXCEPT !.micEnabled = TRUE, !.camEnabled = TRUE]
                      ELSE lkSdk
          /\ lkIsMuted' = FALSE
          /\ lkIsVideoOff' = FALSE
     ELSE UNCHANGED <<lkSdk, lkIsMuted, lkIsVideoOff>>
  /\ lkIsConnecting' = FALSE
  /\ lkHandlersOn' = TRUE
  /\ lkPc' = "active"
  /\ UNCHANGED <<lkRoom, lkParticipants, lkLocalParticipant, lkError, lkActiveSpeaker,
                 lkIsConnectingRef, lkHasConnectedRef, lkMounted, lkLastReport,
                 lkReportTick, lkOnDisconnectedCalls>>
  /\ UNCHANGED msVars
  /\ UNCHANGED lkCallVars

\* A participant joins the room; the ParticipantConnected handler (lines 104-106)
\* runs when it is registered.
LkParticipantConnected(p) ==
  /\ lkSdk.state = "connected"
  /\ p \notin lkSdk.remote
  /\ lkSdk' = [lkSdk EXCEPT !.remote = @ \cup {p}]
  /\ lkParticipants' = IF lkHandlersOn THEN Append(lkParticipants, p) ELSE lkParticipants
  /\ UNCHANGED <<lkRoom, lkLocalParticipant, lkIsConnecting, lkError, lkIsMuted,
                 lkIsVideoOff, lkActiveSpeaker, lkIsConnectingRef, lkHasConnectedRef,
                 lkPc, lkMounted, lkHandlersOn, lkLastReport, lkReportTick,
                 lkOnDisconnectedCalls>>
  /\ UNCHANGED msVars
  /\ UNCHANGED lkCallVars

\* A participant leaves the room; the ParticipantDisconnected handler (lines
\* 108-112) runs when it is registered.
LkParticipantDisconnected(p) ==
  /\ lkSdk.state = "connected"
  /\ p \in lkSdk.remote
  /\ lkSdk' = [lkSdk EXCEPT !.remote = @ \ {p}]
  /\ lkParticipants' = IF lkHandlersOn
                       THEN SelectSeq(lkParticipants, LAMBDA x : x # p)
                       ELSE lkParticipants
  /\ UNCHANGED <<lkRoom, lkLocalParticipant, lkIsConnecting, lkError, lkIsMuted,
                 lkIsVideoOff, lkActiveSpeaker, lkIsConnectingRef, lkHasConnectedRef,
                 lkPc, lkMounted, lkHandlersOn, lkLastReport, lkReportTick,
                 lkOnDisconnectedCalls>>
  /\ UNCHANGED msVars
  /\ UNCHANGED lkCallVars

\* An ActiveSpeakersChanged event, listing participants of the room, reaches its
\* handler.
LkActiveSpeakersChanged(speakers) ==
  /\ lkSdk.state = "connected"
  /\ lkHandlersOn
  /\ Range(speakers) \subseteq lkSdk.remote \cup {LkLocalId}
  /\ lkActiveSpeaker' = ActiveSpeakerUpdater(lkActiveSpeaker, speakers)
  /\ lkLastReport' = speakers
  /\ lkReportTick' = ~lkReportTick
  /\ UNCHANGED <<lkRoom, lkParticipants, lkLocalParticipant, lkIsConnecting, lkError,
                 lkIsMuted, lkIsVideoOff, lkIsConnectingRef, lkHasConnectedRef, lkPc,
                 lkMounted, lkHandlersOn, lkSdk, lkOnDisconnectedCalls>>
  /\ UNCHANGED msVars
  /\ UNCHANGED lkCallVars

\* The Disconnected handler (lines 120-127), when it is registered.
LkDisconnectedHandler ==
  IF lkHandlersOn
  THEN /\ lkIsConnectingRef' = FALSE
       /\ lkHasConnectedRef' = FALSE
       /\ lkOnDisconnectedCalls' = lkOnDisconnectedCalls + 1
  ELSE UNCHANGED <<lkIsConnectingRef, lkHasConnectedRef, lkOnDisconnectedCalls>>

\* The server or the network ends the connection.
LkRoomDisconnected ==
  /\ lkSdk.state = "connected"
  /\ lkSdk' = [lkSdk EXCEPT !.state = "disconnected", !.remote = {}]
  /\ LkDisconnectedHandler
  /\ UNCHANGED <<lkRoom, lkParticipants, lkLocalParticipant, lkIsConnecting, lkError,
                 lkIsMuted, lkIsVideoOff, lkActiveSpeaker, lkPc, lkMounted,
                 lkHandlersOn, lkLastReport, lkReportTick>>
  /\ UNCHANGED msVars
  /\ UNCHANGED lkCallVars

\* The cleanup of the effect (lines 142-147).
LkCleanup ==
  /\ lkMounted
  /\ lkMounted' = FALSE
  /\ lkIsConnectingRef' = FALSE
  /\ lkHasConnectedRef' = FALSE
  /\ lkSdk' = [lkSdk EXCEPT !.state = "disconnected", !.remote = {}]
  /\ lkOnDisconnectedCalls' =
       IF lkSdk.state = "connected" /\ lkHandlersOn
       THEN lkOnDisconnectedCalls + 1 ELSE lkOnDisconnectedCalls
  /\ UNCHANGED <<lkRoom, lkParticipants, lkLocalParticipant, lkIsConnecting, lkError,
                 lkIsMuted, lkIsVideoOff, lkActiveSpeaker, lkPc, lkHandlersOn,
                 lkLastReport, lkReportTick>>
  /\ UNCHANGED msVars
  /\ UNCHANGED lkCallVars

\* disconnect() (lines 164-168): room.disconnect() when the room state is set.
\* The SDK emits Disconnected when it was connected.
LkDisconnect ==
  /\ lkMounted
  /\ lkLeaveEarly' = (lkLeaveEarly \/ lkPc = "connect")
  /\ IF lkRoom
     THEN /\ lkSdk' = [lkSdk EXCEPT !.state = "disconnected", !.remote = {}]
          /\ IF lkSdk.state = "connected"
             THEN LkDisconnectedHandler
             ELSE UNCHANGED <<lkIsConnectingRef, lkHasConnectedRef, lkOnDisconnectedCalls>>
     ELSE UNCHANGED <<lkSdk, lkIsConnectingRef, lkHasConnectedRef, lkOnDisconnectedCalls>>
  /\ UNCHANGED <<lkRoom, lkParticipants, lkLocalParticipant, lkIsConnecting, lkError,
                 lkIsMuted, lkIsVideoOff, lkActiveSpeaker, lkPc, lkMounted,
                 lkHandlersOn, lkLastReport, lkReportTick, lkToggles>>
  /\ UNCHANGED msVars

\* toggleMute() / toggleVideo() of useLiveKit is called (lines 150-153, 157-160):
\* it reads the SDK's enabled bit and awaits setMicrophoneEnabled /
\* setCameraEnabled with the opposite value.
LkToggleCall(kind) ==
  /\ lkMounted
  /\ lkLocalParticipant
  /\ Len(lkToggles) < MaxToggles
  /\ lkToggles' = Append(lkToggles,
       [kind |-> kind, pc |-> "await",
        enabled |-> IF kind = "audio" THEN lkSdk.micEnabled ELSE lkSdk.camEnabled,
        overlap |-> \E i \in DOMAIN lkToggles : lkToggles[i].pc = "await"])
  /\ UNCHANGED <<lkRoom, lkParticipants, lkLocalParticipant, lkIsConnecting, lkError,
                 lkIsMuted, lkIsVideoOff, lkActiveSpeaker, lkIsConnectingRef,
                 lkHasConnectedRef, lkPc, lkMounted, lkHandlersOn, lkSdk, lkLastReport,
                 lkReportTick, lkOnDisconnectedCalls, lkLeaveEarly>>
  /\ UNCHANGED msVars

\* The flag a toggle of useLiveKit sets when its await resolved, from the enabled
\* bit it read before: setIsMuted(!enabled) / setIsVideoOff(!enabled) (lines 154,
\* 161).
LkToggleFlag(enabled) == ~enabled

\* The awaited setMicrophoneEnabled / setCameraEnabled of toggle call i resolved
\* (lines 153-154, 160-161).
LkToggleDone(i) ==
  /\ i \in DOMAIN lkToggles
  /\ lkToggles[i].pc = "await"
  /\ lkSdk.state = "connected"
  /\ lkToggles' = [lkToggles EXCEPT ![i].pc = "done"]
  /\ IF lkToggles[i].kind = "audio"
     THEN /\ lkSdk' = [lkSdk EXCEPT !.micEnabled = ~lkToggles[i].enabled]
          /\ lkIsMuted' = LkToggleFlag(lkToggles[i].enabled)
          /\ UNCHANGED lkIsVideoOff
     ELSE /\ lkSdk' = [lkSdk EXCEPT !.camEnabled = ~lkToggles[i].enabled]
          /\ lkIsVideoOff' = LkToggleFlag(lkToggles[i].enabled)
          /\ UNCHANGED lkIsMuted
  /\ UNCHANGED <<lkRoom, lkParticipants, lkLocalParticipant, lkIsConnecting, lkError,
                 lkActiveSpeaker, lkIsConnectingRef, lkHasConnectedRef, lkPc, lkMounted,
                 lkHandlersOn, lkLastReport, lkReportTick, lkOnDisconnectedCalls,
                 lkLeaveEarly>>
  /\ UNCHANGED msVars

\* The awaited setMicrophoneEnabled / setCameraEnabled of toggle call i rejected:
\* the toggle has no catch and ends there.
LkToggleFail(i) ==
  /\ i \in DOMAIN lkToggles
  /\ lkToggles[i].pc = "await"
  /\ lkToggles' = [lkToggles EXCEPT ![i].pc = "failed"]
  /\ UNCHANGED <<lkRoom, lkParticipants, lkLocalParticipant, lkIsConnecting, lkError,
                 lkIsMuted, lkIsVideoOff, lkActiveSpeaker, lkIsConnectingRef,
                 lkHasConnectedRef, lkPc, lkMounted, lkHandlersOn, lkSdk, lkLastReport,
                 lkReportTick, lkOnDisconnectedCalls, lkLeaveEarly>>
  /\ UNCHANGED msVars

NextLiveKit ==
  \/ LkEffect
  \/ \E R \in SUBSET LkRemoteIds : LkConnected(R)
  \/ LkConnectFail
  \/ \E ok \in BOOLEAN : LkEnableSettled(ok)
  \/ \E p \in LkRemoteIds : LkParticipantConnected(p)
  \/ \E p \in LkRemoteIds : LkParticipantDisconnected(p)
  \/ \E sp \in SpeakerReports : LkActiveSpeakersChanged(sp)
  \/ LkRoomDisconnected
  \/ LkCleanup
  \/ LkDisconnect

SpecLiveKit == Init /\ [][NextLiveKit]_vars

\* The local controls of a useLiveKit session in a room with nobody else.
NextLiveKitLocal ==
  \/ LkEffect
  \/ LkConnected({})
  \/ LkConnectFail
  \/ \E ok \in BOOLEAN : LkEnableSettled(ok)
  \/ LkRoomDisconnected
  \/ LkCleanup
  \/ LkDisconnect
  \/ \E k \in Kinds : LkToggleCall(k)
  \/ \E i \in 1..MaxToggles : LkToggleDone(i)
  \/ \E i \in 1..MaxToggles : LkToggleFail(i)

SpecLiveKitLocal == Init /\ [][NextLiveKitLocal]_vars

\* ------------------------------------------------------------------- claims
\* A roster entry holds the track for the kind, with the kind's flag enabled.
HasTrack(e, kind, track) ==
  IF kind = "video" THEN e.videoTrack = track /\ ~e.isVideoOff
  ELSE e.audioTrack = track /\ ~e.isMuted

\* The track localParticipant holds for the kind.
LocalTrackField(kind) ==
  IF kind = "audio" THEN localParticipant.audioTrack ELSE localParticipant.videoTrack

\* C1: a peer whose last membership report is peerLeft is not in the roster: no
\* consumeProducer call that was started or queued before the peerLeft puts it
\* back.
C1_DepartedStaysOut == \A p \in Peers : peerHist[p] = "left" => ~InRoster(p)

\* C2: no continuation of a connect() whose session was torn down (by the effect
\* cleanup or by disconnect()) sets localParticipant, sets isConnectedRef, sets
\* the participants list or consumes a producer.
C2_NoRepopulation == tornDownActs = {}

\* C3: two toggleMute() calls of which the second starts while the first is still
\* awaiting its engine command, made on a published microphone, leave isMuted as
\* it was and issue one pause and one resume.
C3_DoubleToggleRestores ==
  ( /\ Len(toggles) = 2
    /\ \A i \in 1..2 : toggles[i].kind = "audio" /\ toggles[i].pc = "done"
    /\ toggles[1].prod # 0
    /\ toggles[1].live
    /\ toggles[2].overlap )
  => /\ isMuted = toggles[1].was
     /\ Len(cmdLog) = 2
     /\ {cmdLog[1].cmd, cmdLog[2].cmd} = {"pause", "resume"}

\* C4: after two changeVideoInput (or two changeAudioInput) calls of which the
\* second was made while the first was pending, both made in an active session
\* and both replacing the track of its producer of that kind, the producer and
\* localParticipant both hold the track of the second call.
C4_LastSwitchWins ==
  \A k \in Kinds :
    ( /\ Len(switches) = 2
      /\ \A i \in 1..2 : switches[i].kind = k /\ switches[i].pc = "done"
      /\ \A i \in 1..2 : switches[i].prod = producersRef[k]
      /\ switches[2].overlap
      /\ switches[1].live
      /\ toggles = <<>>
      /\ producersRef[k] # 0 )
    => /\ producerObjs[producersRef[k]].track = Track("sw", 2, k)
       /\ LocalTrackField(k) = Track("sw", 2, k)

\* C10: a second invocation of the connect effect is rejected while an earlier
\* connect() is connecting or active: the socket carries at most one joinRoom
\* request.
C10_OneJoinSequence == joinReqs <= 1

\* C5: the participants list holds at most one entry per participant id.
C5_UniqueIds ==
  \A i, j \in DOMAIN participants : participants[i].id = participants[j].id => i = j
C5_Witness ==
  /\ Len(participants) >= 2
  /\ \E c \in ConsumerIds :
       /\ consumes[c] = "ok"
       /\ InRoster(ConsumerPeer(c))
       /\ peerHist[ConsumerPeer(c)] = "dup"

C7_NewPeerIdempotent ==
  [][\A p \in Peers : (InRoster(p) /\ NewPeer(p)) => participants' = participants]_vars
C7_Witness ==
  \E p \in Peers :
     /\ peerHist[p] = "dup"
     /\ InRoster(p)
     /\ Entry(participants, p).videoTrack # 0
     /\ ~Entry(participants, p).isVideoOff

\* C8: an ActiveSpeakersChanged report with a non-empty list sets activeSpeaker to
\* its first entry, and one with an empty list leaves activeSpeaker as it is.
C8_SpeakerReport ==
  [][lkReportTick' # lkReportTick =>
       lkActiveSpeaker' = IF lkLastReport' = <<>> THEN lkActiveSpeaker
                          ELSE Head(lkLastReport')]_vars
C8_Witness ==
  /\ lkActiveSpeaker \in LkRemoteIds
  /\ lkLastReport = <<>>

\* C9: when the participant that is the current activeSpeaker leaves and the
\* ParticipantDisconnected handler runs for it, activeSpeaker is cleared to null.
C9_SpeakerClearedOnLeave ==
  [][\A p \in LkRemoteIds :
       (lkHandlersOn /\ lkActiveSpeaker = p /\ LkParticipantDisconnected(p))
         => lkActiveSpeaker' = 0]_vars

\* C11: a disconnect() made while the hook is still connecting cancels the join:
\* no room and no localParticipant is set afterwards.
C11_LeaveCancelsJoin == lkLeaveEarly => (~lkRoom /\ ~lkLocalParticipant)

\* C12: when the engine command of a toggleMute() / toggleVideo() made alone in an
\* active session fails, the local state is what it was before the call: the
\* flags, localParticipant, the enabled bit of the local track, the producers,
\* and the session is still active.
C12_FailedToggleRollsBack ==
  \A i \in DOMAIN toggles :
    (toggles[i].pc = "failed" /\ toggles[i].live /\ Len(toggles) = 1 /\ switches = <<>>)
      => LocalSnapshot(toggles[i].kind) = toggles[i].before

\* C13: when a changeAudioInput / changeVideoInput call made alone in an active
\* session fails, the previous device remains active: localParticipant's track
\* of the kind and the track of the producer of the kind are what they were
\* before the call, the session is still active, and the call did not throw.
C13_FailedSwitchKeepsDevice ==
  \A i \in DOMAIN switches :
    (switches[i].pc = "failed" /\ switches[i].live /\ Len(switches) = 1 /\ toggles = <<>>)
      => /\ SwitchSnapshot(switches[i].kind) = switches[i].before
         /\ ~switches[i].threw
         /\ localParticipant # NoLocal
C13_Witness ==
  /\ Len(switches) = 1 /\ toggles = <<>>
  /\ switches[1].pc = "failed" /\ switches[1].live
  /\ switches[1].prod # 0
  /\ ProducerTrack(switches[1].kind) = Track("cap", 1, switches[1].kind)

C15_JoinEnds ==
  (isConnecting /\ \E r \in Runs : runs[r].pc \in NeedsSocket)
    ~> (~isConnecting /\ (localParticipant # NoLocal \/ error = "err"))

\* C16: after the session is torn down (every effect run cleaned up) and every
\* connect() and device switch has come to its end, every local track that was
\* acquired is stopped.
C16_TracksStopped ==
  ( /\ nRuns >= 1
    /\ \A r \in Runs : ~runs[r].mounted
    /\ \A r \in Runs : runs[r].pc \in {"idle", "done", "failed", "cancelled"}
    /\ \A i \in DOMAIN switches : switches[i].pc \in {"done", "failed"} )
  => acquiredTracks \subseteq stoppedTracks

\* C17: a disconnect by the server or the network that happens after the
\* transport connect succeeded is surfaced through onDisconnected, once.
C17_DisconnectSurfaced ==
  [][LkRoomDisconnected => lkOnDisconnectedCalls' = lkOnDisconnectedCalls + 1]_vars

\* C18: when a toggleMute() of useLiveKit completes, isMuted is true exactly when
\* the microphone is disabled, and when a toggleVideo() completes, isVideoOff is
\* true exactly when the camera is disabled.
C18_FlagMatchesDevice ==
  [][\A i \in 1..MaxToggles :
       LkToggleDone(i) =>
         IF lkToggles[i].kind = "audio" THEN lkIsMuted' = ~lkSdk'.micEnabled
         ELSE lkIsVideoOff' = ~lkSdk'.camEnabled]_vars

\* C19: the participants list of useLiveKit never holds two entries with the same
\* identity.
C19_LkUniqueIdentities ==
  \A i, j \in DOMAIN lkParticipants : lkParticipants[i] = lkParticipants[j] => i = j

\* C20: a peerLeft for peer p removes p from the roster and releases what is held
\* for p: every consumer of p that was registered is closed and none remains
\* registered; for a p that is not in the roster the list is unchanged.
C20_PeerLeftReleases ==
  [][\A p \in Peers :
       PeerLeft(p) =>
         /\ p \notin Ids(participants')
         /\ ~InRoster(p) => participants' = participants
         /\ \A c \in ConsumerIds :
              ConsumerPeer(c) = p =>
                /\ c \notin consumersRef'
                /\ c \in consumersRef => c \in closedConsumers']_vars

\* The entries of two rosters agree except, at most, in the flag of the kind of
\* the entry of peer p.
SameButFlag(before, after, p, kind) ==
  /\ Len(after) = Len(before)
  /\ \A i \in DOMAIN before :
       IF before[i].id # p THEN after[i] = before[i]
       ELSE /\ after[i].id = p /\ after[i].name = before[i].name
            /\ after[i].videoTrack = before[i].videoTrack
            /\ after[i].audioTrack = before[i].audioTrack
            /\ kind # "video" => after[i].isVideoOff = before[i].isVideoOff
            /\ kind # "audio" => after[i].isMuted = before[i].isMuted

\* C21: a producerPaused or producerResumed event changes only the flag of the
\* producer's kind of the named participant: its tracks, its other flag and the
\* other participants are unchanged.
C21_PauseTouchesFlagOnly ==
  [][\A q \in Producers :
       (ProducerPaused(q) \/ ProducerResumed(q)) =>
         SameButFlag(participants, participants', ProducerPeer(q), ProducerKind(q))]_vars
\* A participant holds a track of a kind whose flag says disabled.
C21_Witness ==
  \E i \in DOMAIN participants :
    \/ participants[i].videoTrack # 0 /\ participants[i].isVideoOff
    \/ participants[i].audioTrack # 0 /\ participants[i].isMuted

\* C22: a consumerClosed event for a registered consumer of peer P and kind K
\* closes and unregisters the consumer, sets P's track of kind K to null and its
\* flag of kind K to disabled, and keeps P, its track and flag of the other kind
\* and every other participant as they were.
C22_ConsumerClosedClears ==
  [][\A c \in ConsumerIds :
       (c \in consumersRef /\ ConsumerClosed(c)) =>
         /\ c \in closedConsumers' /\ c \notin consumersRef'
         /\ SameButFlag(participants,
                        [i \in DOMAIN participants' |->
                           IF participants'[i].id # ConsumerPeer(c) THEN participants'[i]
                           ELSE IF ConsumerKind(c) = "video"
                                THEN [participants'[i] EXCEPT
                                        !.videoTrack = participants[i].videoTrack]
                                ELSE [participants'[i] EXCEPT
                                        !.audioTrack = participants[i].audioTrack]],
                        ConsumerPeer(c), ConsumerKind(c))
         /\ \A i \in DOMAIN participants' :
              participants'[i].id = ConsumerPeer(c) =>
                IF ConsumerKind(c) = "video"
                THEN participants'[i].videoTrack = 0 /\ participants'[i].isVideoOff
                ELSE participants'[i].audioTrack = 0 /\ participants'[i].isMuted]_vars
\* A consumer whose track the roster had shown was closed by consumerClosed and
\* its peer is still listed.
C22_Witness ==
  \E c \in closedConsumers :
    /\ consumes[c] = "ok"
    /\ InRoster(ConsumerPeer(c))
    /\ c \notin consumersRef

\* C23: when enabling the camera and microphone rejects during the join of
\* useLiveKit, the session becomes active (isConnecting false, error null, room
\* and localParticipant set) and the hook reports isMuted = true and
\* isVideoOff = true.
C23_EnableFailureReportsMuted ==
  [][LkEnableSettled(FALSE) =>
       /\ ~lkIsConnecting' /\ lkError' = "null"
       /\ lkRoom' /\ lkLocalParticipant'
       /\ lkIsMuted' /\ lkIsVideoOff']_vars

\* C24: a remote participant that is in the participants list leaves it only by
\* a peerLeft event for its id; applying the peer list of the joinRoom response
\* does not drop a participant that a newPeer event had added.
C24_OnlyPeerLeftRemoves ==
  [][\A p \in Peers :
       (InRoster(p) /\ p \notin Ids(participants')) => PeerLeft(p)]_vars

\* A producer id that names no registered consumer, or whose peer is not listed.
UnknownProducer(q) ==
  \/ ~InRoster(ProducerPeer(q))
  \/ ~\E c \in consumersRef : ConsumerProducer(c) = q

\* C25: producerPaused, producerResumed, producerClosed and consumerClosed events
\* that name a peer, a producer or a consumer the hook does not know are dropped:
\* participants and consumersRef stay as they are and error is not set.  (Every
\* step either leaves the three as they are or is not such an event.)
C25_UnknownIdsDropped ==
  [][\/ /\ participants' = participants
        /\ consumersRef' = consumersRef
        /\ error' = error
     \/ /\ \A q \in Producers :
             ~( /\ UnknownProducer(q)
                /\ ProducerPaused(q) \/ ProducerResumed(q) \/ ProducerClosed(q) )
        /\ \A c \in ConsumerIds :
             ~(c \notin consumersRef /\ ConsumerClosed(c))]_vars
\* A producerPaused event was handled for a producer that never had a consumer,
\* while its peer is listed.
C25_Witness ==
  \E q \in pausedProducers :
    /\ InRoster(ProducerPeer(q))
    /\ peerHist[ProducerPeer(q)] # "left"
    /\ closedConsumers = {}
    /\ \A r \in Runs : consumes[ConsumerId(r, q)] = "none"

\* C26: when consuming a producer of kind K of peer P succeeds and P is in the
\* participants list, P's track of kind K becomes the consumer's track and its
\* flag of kind K enabled, while P's track and flag of the other kind and every
\* other participant stay as they were.
C26_ConsumeSetsTrack ==
  [][\A c \in ConsumerIds :
       (InRoster(ConsumerPeer(c)) /\ ConsumeResumed(c)) =>
         /\ Len(participants') = Len(participants)
         /\ \A i \in DOMAIN participants :
              IF participants[i].id = ConsumerPeer(c)
              THEN /\ HasTrack(participants'[i], ConsumerKind(c), c)
                   /\ participants'[i] =
                        WithTrack(participants[i], ConsumerKind(c), c, FALSE)
                   /\ ConsumerKind(c) = "video" =>
                        /\ participants'[i].audioTrack = participants[i].audioTrack
                        /\ participants'[i].isMuted = participants[i].isMuted
                   /\ ConsumerKind(c) = "audio" =>
                        /\ participants'[i].videoTrack = participants[i].videoTrack
                        /\ participants'[i].isVideoOff = participants[i].isVideoOff
              ELSE participants'[i] = participants[i]]_vars
\* A participant that newPeer or the joinRoom response had listed holds the
\* tracks of two consumers, one of each kind, both enabled.
C26_Witness ==
  \E i \in DOMAIN participants :
    /\ peerHist[participants[i].id] = "joined"
    /\ participants[i].videoTrack # 0 /\ ~participants[i].isVideoOff
    /\ participants[i].audioTrack # 0 /\ ~participants[i].isMuted

\* The audio producer of producersRef publishes live audio: it is neither paused
\* nor closed and its track is enabled.
LiveAudio ==
  /\ producersRef["audio"] # 0
  /\ ~producerObjs[producersRef["audio"]].paused
  /\ ~producerObjs[producersRef["audio"]].closed
  /\ producerObjs[producersRef["audio"]].track \notin disabledTracks

\* C27: once the join has completed (localParticipant is set) and no toggle is
\* in flight, isMuted = true implies that no live audio is published, also when
\* toggleMute() was called while the join was in progress.
C27_MutedMeansNoLiveAudio ==
  ( /\ localParticipant # NoLocal
    /\ \A i \in DOMAIN toggles : toggles[i].pc \in {"done", "failed"}
    /\ isMuted )
  => ~LiveAudio

\* C28: a producerPaused event is not lost: when a producer of a peer P that the
\* joinRoom response or newPeer announced is paused and not resumed, and no
\* consumeProducer call for it is in flight, P's flag of the producer's kind shows
\* disabled, also when the event arrived while the consume request was in flight.
C28_PauseNotLost ==
  \A q \in pausedProducers :
    ( /\ peerHist[ProducerPeer(q)] \in {"joined", "dup"}
      /\ \A r \in Runs : consumes[ConsumerId(r, q)] \notin {"req", "create", "resume"} )
    => \A i \in DOMAIN participants :
         participants[i].id = ProducerPeer(q) =>
           IF ProducerKind(q) = "video"
           THEN participants[i].isVideoOff ELSE participants[i].isMuted

\* C29: whenever a local producer of a kind exists, localParticipant is set and
\* no device switch is in flight, the track the producer publishes is
\* localParticipant's track of that kind, also after a device switch made while
\* there was no producer of the kind, followed by a toggle that created it.
C29_ProducerTrackIsLocalTrack ==
  \A k \in Kinds :
    ( /\ producersRef[k] # 0
      /\ localParticipant # NoLocal
      /\ \A i \in DOMAIN switches : switches[i].pc \in {"done", "failed"} )
    => ProducerTrack(k) = LocalTrackField(k)

\* C30: once the join of useLiveKit has completed and the room event handlers
\* are registered, participants holds every remote participant that is in the
\* room, also one who connected between the read of room.remoteParticipants and
\* the registration of the ParticipantConnected handler.
C30_LkRosterComplete ==
  (lkPc = "active" /\ lkHandlersOn /\ lkSdk.state = "connected")
  => lkSdk.remote \subseteq Range(lkParticipants)
====
